---- MODULE Spec2Model ----
(***************************************************************************)
(* Kamailio TLS module, common functions (src/modules/tls/tls_util.c):     *)
(*   - collect_garbage: the sweep over the chain of TLS configuration      *)
(*     generations, together with the registry operations that surround it *)
(*     (publish, acquire_current, release);                                *)
(*   - ksr_tls_keylog_vfilter_match: the key-log label filter;             *)
(*   - ksr_tls_keylog_file_init / ksr_tls_keylog_file_write: the file sink;*)
(*   - ksr_tls_keylog_peer_init / ksr_tls_keylog_peer_send: the peer sink. *)
(* Each component has its own specification over its own variables; the    *)
(* variables of the other components stay at their initial values.         *)
(***************************************************************************)
EXTENDS Integers, Sequences, FiniteSets, TLC

\* ---------------------------------------------------------------- bounds

\* Number of concurrent workers (processes running over shared memory).
NWorkers == 2
\* Number of configuration generations that can ever be published.
MaxGen == 4
\* Number of calls of each init function.
MaxInit == 2
\* Number of calls of ksr_tls_keylog_file_write.
MaxWrites == 2
\* Number of calls of ksr_tls_keylog_peer_send.
MaxSends == 2
\* Number of connections that bind to a generation (each holds one reference).
NConns == 1

Workers == 1..NWorkers
Gens == 1..MaxGen
Conns == 1..NConns

\* The NULL pointer, and "no worker holds the lock".
NULL == 0
NoWorker == 0

VARIABLES
    \* ---- ConfigRegistry (shared memory)
    tls_domains_cfg,       \* *tls_domains_cfg: the chain head (current generation)
    cfg_next,              \* cfg->next of every generation
    ref_count,             \* cfg->ref_count of every generation
    cfg_mem,               \* allocator's view of every generation: fresh / live / freed /
                           \* freed_twice
    tls_domains_cfg_lock,  \* holder of tls_domains_cfg_lock, or NoWorker
    \* ---- per worker: position in collect_garbage / publish, and its locals
    pc,
    prev,
    cur,
    next,
    conn_cfg,              \* the generation each connection holds a reference on, or NULL
    gc_at_lock,            \* history: the head, the retired generations with count
                           \* zero, and the chain, when the worker's sweep took the lock
    \* ---- ksr_tls_keylog_vfilter_match: one call in progress
    vf_pc,                 \* "idle", "loop" (inside the for loop) or "ret" (returned)
    vf_line,               \* the argument line, a string of character codes
    vf_i,                  \* the loop index i
    vf_ret,                \* the value returned
    \* ---- key-log configuration (read-only after startup)
    ksr_tls_keylog_mode,   \* *ksr_tls_keylog_mode as the set of its bits, or ModeNull
    ksr_tls_keylog_file,   \* the str ksr_tls_keylog_file: [s, len]
    ksr_tls_keylog_peer,   \* the str ksr_tls_keylog_peer: [s, len]
    peer_env,              \* what the network collaborator answers for that address:
                           \* [parse_ok, proto, resolve_ok]
    \* ---- FileSink
    ksr_tls_keylog_file_lock,  \* the pointer: NULL or LockAddr
    file_lock_mem,         \* the lock object: "none", "uninit" (allocated only), "init"
    file_lock_holder,      \* the worker holding the initialised lock, or NoWorker
    file_init_ret,         \* what the last ksr_tls_keylog_file_init returned, or NoRet
    file_init_calls,       \* calls of ksr_tls_keylog_file_init so far
    lock_allocs,           \* lock objects lock_alloc has handed out
    lock_inits,            \* successful lock_init calls
    fw_pc,                 \* per worker: position in ksr_tls_keylog_file_write
    fw_line,               \* per worker: the argument line
    fw_lf,                 \* per worker: lf is an open stream
    fw_buf,                \* per worker: bytes fprintf produced that are not in the file yet
    fw_ret,                \* per worker: ret
    fw_calls,              \* calls of ksr_tls_keylog_file_write so far
    keylog_out,            \* the bytes of the key-log file
    fw_log,                \* history: the lines of the writes that completed, in order
    \* ---- PeerSink
    ksr_tls_keylog_peer_dst,   \* the dest_info_t: [proto, to, send_sock]
    peer_init_ret,         \* what the last ksr_tls_keylog_peer_init returned, or NoRet
    peer_init_calls,       \* calls of ksr_tls_keylog_peer_init so far
    peer_init_steps,       \* collaborator functions the last init call invoked, in order
    ps_pc,                 \* per worker: position in ksr_tls_keylog_peer_send
    ps_line,               \* per worker: the argument line
    ps_ret,                \* per worker: the value returned
    ps_calls,              \* calls of ksr_tls_keylog_peer_send so far
    net                    \* the datagrams handed to the network, in order

regVars == <<tls_domains_cfg, cfg_next, ref_count, cfg_mem, tls_domains_cfg_lock,
             pc, prev, cur, next, conn_cfg, gc_at_lock>>

filtVars == <<vf_pc, vf_line, vf_i, vf_ret>>

\* The key-log variables, which the registry never touches.
cfgVars == <<ksr_tls_keylog_mode, ksr_tls_keylog_file, ksr_tls_keylog_peer, peer_env>>

peerVars == <<ksr_tls_keylog_peer_dst, peer_init_ret, peer_init_calls, peer_init_steps,
              ps_pc, ps_line, ps_ret, ps_calls, net>>

fileVars == <<ksr_tls_keylog_file_lock, file_lock_mem, file_lock_holder, file_init_ret,
              file_init_calls, lock_allocs, lock_inits, fw_pc, fw_line, fw_lf, fw_buf,
              fw_ret, fw_calls, keylog_out, fw_log>>

\* The key-log variables, which the registry never touches.
keylogVars == <<filtVars, cfgVars, fileVars, peerVars>>

vars == <<regVars, filtVars, cfgVars, fileVars, peerVars>>

\* ------------------------------------------------------- ConfigRegistry

\* The generations linked from g, in chain order.  The fuel stops the walk on a
\* chain that is not a finite list.
RECURSIVE ChainFrom(_, _)
ChainFrom(g, fuel) ==
    IF g = NULL \/ fuel = 0 THEN <<>>
    ELSE <<g>> \o ChainFrom(cfg_next[g], fuel - 1)

\* The chain, head first.
Chain == ChainFrom(tls_domains_cfg, MaxGen + 1)

ChainSet == {Chain[i] : i \in 1..Len(Chain)}

\* The retired generations: linked, but not the head.
Retired == ChainSet \ {tls_domains_cfg}

InitRegistry ==
    /\ tls_domains_cfg = 1
    /\ cfg_next = [g \in Gens |-> NULL]
    /\ ref_count = [g \in Gens |-> 0]
    /\ cfg_mem = [g \in Gens |-> IF g = 1 THEN "live" ELSE "fresh"]
    /\ tls_domains_cfg_lock = NoWorker
    /\ pc = [w \in Workers |-> "idle"]
    /\ prev = [w \in Workers |-> NULL]
    /\ cur = [w \in Workers |-> NULL]
    /\ next = [w \in Workers |-> NULL]
    /\ conn_cfg = [c \in Conns |-> NULL]
    /\ gc_at_lock = [w \in Workers |-> [head |-> NULL, zero |-> {}, chain |-> <<>>]]

\* lock_get(tls_domains_cfg_lock) returns once no other worker holds the lock.
GcMayEnterNoLock(w) == TRUE

GcMayEnter(w) == tls_domains_cfg_lock = NoWorker

\* cur = (*tls_domains_cfg)->next: garbage starts with the 2nd element.
FirstGarbageIsHead == tls_domains_cfg

FirstGarbage == cfg_next[tls_domains_cfg]

\* atomic_get(&cur->ref_count) == 0
UnreferencedAlways(g) == TRUE

UnreferencedNever(g) == FALSE

Unreferenced(g) == ref_count[g] = 0

\* A worker calls collect_garbage (line 83) and reaches lock_get.
GcCall(w) ==
    /\ pc[w] = "idle"
    /\ pc' = [pc EXCEPT ![w] = "gc_lock"]
    /\ UNCHANGED <<tls_domains_cfg, cfg_next, ref_count, cfg_mem, tls_domains_cfg_lock,
                   prev, cur, next, conn_cfg, gc_at_lock>>
    /\ UNCHANGED keylogVars

\* collect_garbage, line 90: lock_get.
GcLock(w) ==
    /\ pc[w] = "gc_lock"
    /\ GcMayEnter(w)
    /\ tls_domains_cfg_lock' = w
    /\ gc_at_lock' = [gc_at_lock EXCEPT ![w] = [head |-> tls_domains_cfg,
                                              zero |-> {g \in Retired : ref_count[g] = 0},
                                              chain |-> Chain]]
    /\ pc' = [pc EXCEPT ![w] = "gc_init"]
    /\ UNCHANGED <<tls_domains_cfg, cfg_next, ref_count, cfg_mem, prev, cur, next, conn_cfg>>
    /\ UNCHANGED keylogVars

\* collect_garbage, lines 95-96: prev = head; cur = head->next.
GcInit(w) ==
    /\ pc[w] = "gc_init"
    /\ prev' = [prev EXCEPT ![w] = tls_domains_cfg]
    /\ cur' = [cur EXCEPT ![w] = FirstGarbage]
    /\ pc' = [pc EXCEPT ![w] = "gc_loop"]
    /\ UNCHANGED <<tls_domains_cfg, cfg_next, ref_count, cfg_mem, tls_domains_cfg_lock,
                   next, conn_cfg, gc_at_lock>>
    /\ UNCHANGED keylogVars

\* A walk that does not move on.
WalkNextIsCur(w) == cur[w]

\* Line 108: cur = next.
WalkNext(w) == next[w]

\* collect_garbage, lines 98-99: while(cur) { next = cur->next; ...
GcLoop(w) ==
    /\ pc[w] = "gc_loop"
    /\ IF cur[w] # NULL
       THEN /\ next' = [next EXCEPT ![w] = cfg_next[cur[w]]]
            /\ pc' = [pc EXCEPT ![w] = "gc_check"]
       ELSE /\ next' = next
            /\ pc' = [pc EXCEPT ![w] = "gc_unlock"]
    /\ UNCHANGED <<tls_domains_cfg, cfg_next, ref_count, cfg_mem, tls_domains_cfg_lock,
                   prev, cur, conn_cfg, gc_at_lock>>
    /\ UNCHANGED keylogVars

\* A walk that keeps its predecessor when it steps over a referenced
\* generation.
KeptPrevStale(w) == prev[w]

\* Line 106: prev = cur, for a generation that stays in the chain.
KeptPrev(w) == cur[w]

\* collect_garbage, lines 100, 104-108: the count is read; a referenced
\* generation becomes the new predecessor and the walk moves on.
GcCheck(w) ==
    /\ pc[w] = "gc_check"
    /\ IF Unreferenced(cur[w])
       THEN /\ pc' = [pc EXCEPT ![w] = "gc_unlink"]
            /\ UNCHANGED <<prev, cur>>
       ELSE /\ prev' = [prev EXCEPT ![w] = KeptPrev(w)]
            /\ cur' = [cur EXCEPT ![w] = WalkNext(w)]
            /\ pc' = [pc EXCEPT ![w] = "gc_loop"]
    /\ UNCHANGED <<tls_domains_cfg, cfg_next, ref_count, cfg_mem, tls_domains_cfg_lock,
                   next, conn_cfg, gc_at_lock>>
    /\ UNCHANGED keylogVars

\* An unlink that stores cur itself, leaving cur on the chain.
UnlinkedSuccessorIsCur(w) == cur[w]

\* Line 102: the value stored by prev->next = cur->next.
UnlinkedSuccessor(w) == cfg_next[cur[w]]

\* collect_garbage, line 102: prev->next = cur->next.
GcUnlink(w) ==
    /\ pc[w] = "gc_unlink"
    /\ cfg_next' = [cfg_next EXCEPT ![prev[w]] = UnlinkedSuccessor(w)]
    /\ pc' = [pc EXCEPT ![w] = "gc_free"]
    /\ UNCHANGED <<tls_domains_cfg, ref_count, cfg_mem, tls_domains_cfg_lock,
                   prev, cur, next, conn_cfg, gc_at_lock>>
    /\ UNCHANGED keylogVars

\* collect_garbage, lines 103 and 108: tls_free_cfg(cur); cur = next.
\* tls_free_cfg on storage that is already freed is a double free
\* ("freed_twice").
GcFree(w) ==
    /\ pc[w] = "gc_free"
    /\ cfg_mem' = [cfg_mem EXCEPT ![cur[w]] =
                      IF cfg_mem[cur[w]] = "live" THEN "freed" ELSE "freed_twice"]
    /\ cur' = [cur EXCEPT ![w] = WalkNext(w)]
    /\ pc' = [pc EXCEPT ![w] = "gc_loop"]
    /\ UNCHANGED <<tls_domains_cfg, cfg_next, ref_count, tls_domains_cfg_lock,
                   prev, next, conn_cfg, gc_at_lock>>
    /\ UNCHANGED keylogVars

\* collect_garbage, line 111: lock_release; the function returns and its
\* locals die.
GcUnlock(w) ==
    /\ pc[w] = "gc_unlock"
    /\ tls_domains_cfg_lock' = NoWorker
    /\ pc' = [pc EXCEPT ![w] = "idle"]
    /\ prev' = [prev EXCEPT ![w] = NULL]
    /\ cur' = [cur EXCEPT ![w] = NULL]
    /\ next' = [next EXCEPT ![w] = NULL]
    /\ gc_at_lock' = [gc_at_lock EXCEPT ![w] = [head |-> NULL, zero |-> {}, chain |-> <<>>]]
    /\ UNCHANGED <<tls_domains_cfg, cfg_next, ref_count, cfg_mem, conn_cfg>>
    /\ UNCHANGED keylogVars

\* The generation a publish allocates: the lowest one never used.
FreshGen == CHOOSE g \in Gens : cfg_mem[g] = "fresh" /\ \A h \in Gens : h < g => cfg_mem[h] # "fresh"

\* publish(new_generation): takes the registry lock ...
PubLock(w) ==
    /\ pc[w] = "idle"
    /\ \E g \in Gens : cfg_mem[g] = "fresh"
    /\ tls_domains_cfg_lock = NoWorker
    /\ tls_domains_cfg_lock' = w
    /\ pc' = [pc EXCEPT ![w] = "pub_swap"]
    /\ UNCHANGED <<tls_domains_cfg, cfg_next, ref_count, cfg_mem, prev, cur, next, conn_cfg, gc_at_lock>>
    /\ UNCHANGED keylogVars

\* ... links the prior head behind the new generation and swaps the head ...
PubSwap(w) ==
    /\ pc[w] = "pub_swap"
    /\ LET g == FreshGen IN
        /\ cfg_mem' = [cfg_mem EXCEPT ![g] = "live"]
        /\ cfg_next' = [cfg_next EXCEPT ![g] = tls_domains_cfg]
        /\ tls_domains_cfg' = g
    /\ pc' = [pc EXCEPT ![w] = "pub_unlock"]
    /\ UNCHANGED <<ref_count, tls_domains_cfg_lock, prev, cur, next, conn_cfg, gc_at_lock>>
    /\ UNCHANGED keylogVars

\* ... and releases the lock.
PubUnlock(w) ==
    /\ pc[w] = "pub_unlock"
    /\ tls_domains_cfg_lock' = NoWorker
    /\ pc' = [pc EXCEPT ![w] = "idle"]
    /\ UNCHANGED <<tls_domains_cfg, cfg_next, ref_count, cfg_mem, prev, cur, next, conn_cfg, gc_at_lock>>
    /\ UNCHANGED keylogVars

\* acquire_current(): one atomic step reads the head and increments its count;
\* the connection keeps the reference.
Acquire(c) ==
    /\ conn_cfg[c] = NULL
    /\ LET g == tls_domains_cfg IN
        /\ ref_count' = [ref_count EXCEPT ![g] = @ + 1]
        /\ conn_cfg' = [conn_cfg EXCEPT ![c] = g]
    /\ UNCHANGED <<tls_domains_cfg, cfg_next, cfg_mem, tls_domains_cfg_lock,
                   pc, prev, cur, next, gc_at_lock>>
    /\ UNCHANGED keylogVars

\* release(reference): one atomic decrement; never frees.
Release(c) ==
    /\ conn_cfg[c] # NULL
    /\ ref_count' = [ref_count EXCEPT ![conn_cfg[c]] = @ - 1]
    /\ conn_cfg' = [conn_cfg EXCEPT ![c] = NULL]
    /\ UNCHANGED <<tls_domains_cfg, cfg_next, cfg_mem, tls_domains_cfg_lock,
                   pc, prev, cur, next, gc_at_lock>>
    /\ UNCHANGED keylogVars

NextRegistry ==
    \/ \E w \in Workers :
        \/ GcCall(w)
        \/ GcLock(w)
        \/ GcInit(w)
        \/ GcLoop(w)
        \/ GcCheck(w)
        \/ GcUnlink(w)
        \/ GcFree(w)
        \/ GcUnlock(w)
        \/ PubLock(w)
        \/ PubSwap(w)
        \/ PubUnlock(w)
    \/ \E c \in Conns :
        \/ Acquire(c)
        \/ Release(c)


\* ------------------------------------------- ksr_tls_keylog_vfilter_match

\* Strings are sequences of character codes; a C string ends with NUL (0).
CharAt(s, i) == IF i <= Len(s) THEN s[i] ELSE 0

\* tolower() in the C locale: 'A'..'Z' map to 'a'..'z'.
tolower(c) == IF c \in 65..90 THEN c + 32 ELSE c

\* strcasecmp(a, b): the difference of the first pair of lower-cased
\* characters that differ, 0 when both strings end together.
RECURSIVE strcasecmp_from(_, _, _)
strcasecmp_from(a, b, i) ==
    LET ca == tolower(CharAt(a, i))
        cb == tolower(CharAt(b, i))
    IN  IF ca # cb THEN ca - cb
        ELSE IF ca = 0 THEN 0
        ELSE strcasecmp_from(a, b, i + 1)

strcasecmp(a, b) == strcasecmp_from(a, b, 1)

\* The table ksr_tls_keylog_vfilters; its NULL terminator is the end of the
\* tuple.  Every entry ends with a space (32).
ksr_tls_keylog_vfilters == <<
    \* "CLIENT_RANDOM "
    <<67, 76, 73, 69, 78, 84, 95, 82, 65, 78, 68, 79, 77, 32>>,
    \* "CLIENT_HANDSHAKE_TRAFFIC_SECRET "
    <<67, 76, 73, 69, 78, 84, 95, 72, 65, 78, 68, 83, 72, 65, 75, 69, 95, 84,
    82, 65, 70, 70, 73, 67, 95, 83, 69, 67, 82, 69, 84, 32>>,
    \* "SERVER_HANDSHAKE_TRAFFIC_SECRET "
    <<83, 69, 82, 86, 69, 82, 95, 72, 65, 78, 68, 83, 72, 65, 75, 69, 95, 84,
    82, 65, 70, 70, 73, 67, 95, 83, 69, 67, 82, 69, 84, 32>>,
    \* "EXPORTER_SECRET "
    <<69, 88, 80, 79, 82, 84, 69, 82, 95, 83, 69, 67, 82, 69, 84, 32>>,
    \* "CLIENT_TRAFFIC_SECRET_0 "
    <<67, 76, 73, 69, 78, 84, 95, 84, 82, 65, 70, 70, 73, 67, 95, 83, 69, 67,
    82, 69, 84, 95, 48, 32>>,
    \* "SERVER_TRAFFIC_SECRET_0 "
    <<83, 69, 82, 86, 69, 82, 95, 84, 82, 65, 70, 70, 73, 67, 95, 83, 69, 67,
    82, 69, 84, 95, 48, 32>>
    >>

\* ksr_tls_keylog_vfilters[i] != NULL, with the C index i counting from 0.
VfilterEntryIsNull(i) == i + 1 > Len(ksr_tls_keylog_vfilters)

\* strcasecmp(ksr_tls_keylog_vfilters[i], line) == 0
VfilterEntryMatches(i, line) ==
    strcasecmp(ksr_tls_keylog_vfilters[i + 1], line) = 0

\* The six canonical labels, as the handshake names them (no trailing space).
CanonicalLabels == {
    \* "CLIENT_RANDOM"
    <<67, 76, 73, 69, 78, 84, 95, 82, 65, 78, 68, 79, 77>>,
    \* "CLIENT_HANDSHAKE_TRAFFIC_SECRET"
    <<67, 76, 73, 69, 78, 84, 95, 72, 65, 78, 68, 83, 72, 65, 75, 69, 95, 84,
    82, 65, 70, 70, 73, 67, 95, 83, 69, 67, 82, 69, 84>>,
    \* "SERVER_HANDSHAKE_TRAFFIC_SECRET"
    <<83, 69, 82, 86, 69, 82, 95, 72, 65, 78, 68, 83, 72, 65, 75, 69, 95, 84,
    82, 65, 70, 70, 73, 67, 95, 83, 69, 67, 82, 69, 84>>,
    \* "EXPORTER_SECRET"
    <<69, 88, 80, 79, 82, 84, 69, 82, 95, 83, 69, 67, 82, 69, 84>>,
    \* "CLIENT_TRAFFIC_SECRET_0"
    <<67, 76, 73, 69, 78, 84, 95, 84, 82, 65, 70, 70, 73, 67, 95, 83, 69, 67,
    82, 69, 84, 95, 48>>,
    \* "SERVER_TRAFFIC_SECRET_0"
    <<83, 69, 82, 86, 69, 82, 95, 84, 82, 65, 70, 70, 73, 67, 95, 83, 69, 67,
    82, 69, 84, 95, 48>>
    }

ToLowerStr(s) == [i \in 1..Len(s) |-> tolower(s[i])]

LowerFirst(s) == [i \in 1..Len(s) |-> IF i = 1 THEN tolower(s[i]) ELSE s[i]]

DropLast(s) == SubSeq(s, 1, Len(s) - 1)

\* " 0102": a space and a secret, as a key-log line carries them.
SecretSuffix == <<32, 48, 49, 48, 50>>

\* The argument lines the calls are made with: the empty string, and every
\* canonical label as it is, in lower and in mixed case, with a trailing
\* space, with a secret after it, and cut short by one character.
VfilterLines ==
    {<<>>} \cup UNION {
        { L, ToLowerStr(L), LowerFirst(L),
          L \o <<32>>, ToLowerStr(L) \o <<32>>,
          L \o SecretSuffix, DropLast(L), L \o <<32, 32>> } : L \in CanonicalLabels }

InitFilter ==
    /\ vf_pc = "idle"
    /\ vf_line = <<>>
    /\ vf_i = 0
    /\ vf_ret = 0

\* ksr_tls_keylog_vfilter_match(line) is called: i = 0.
VfCall ==
    /\ vf_pc = "idle"
    /\ \E line \in VfilterLines : vf_line' = line
    /\ vf_i' = 0
    /\ vf_ret' = 0
    /\ vf_pc' = "loop"
    /\ UNCHANGED <<regVars, cfgVars, fileVars, peerVars>>

\* One test of the loop condition and, inside the loop, of the comparison.
VfStep ==
    /\ vf_pc = "loop"
    /\ IF VfilterEntryIsNull(vf_i)
       THEN /\ vf_ret' = 0
            /\ vf_pc' = "ret"
            /\ vf_i' = vf_i
       ELSE IF VfilterEntryMatches(vf_i, vf_line)
       THEN /\ vf_ret' = 1
            /\ vf_pc' = "ret"
            /\ vf_i' = vf_i
       ELSE /\ vf_i' = vf_i + 1
            /\ UNCHANGED <<vf_ret, vf_pc>>
    /\ UNCHANGED vf_line
    /\ UNCHANGED <<regVars, cfgVars, fileVars, peerVars>>

\* The caller has the result; the next call may start.
VfDone ==
    /\ vf_pc = "ret"
    /\ vf_pc' = "idle"
    /\ vf_line' = <<>>
    /\ vf_i' = 0
    /\ vf_ret' = 0
    /\ UNCHANGED <<regVars, cfgVars, fileVars, peerVars>>

NextFilter ==
    \/ VfCall
    \/ VfStep
    \/ VfDone


\* ---------------------------------------------------- key-log configuration

\* ksr_tls_keylog_mode == NULL
ModeNull == {"NULL"}

ModeBits == {"INIT", "FILE", "PEER"}

Modes == {ModeNull} \cup SUBSET ModeBits

\* A mode test that looks at the channel bit alone.
ModeHasBitOnly(bit) == bit \in ksr_tls_keylog_mode

\* (*ksr_tls_keylog_mode & KSR_TLS_KEYLOG_MODE_INIT) && (*ksr_tls_keylog_mode & bit)
ModeHas(bit) == "INIT" \in ksr_tls_keylog_mode /\ bit \in ksr_tls_keylog_mode

\* A str parameter: s is set or NULL, len is its length.
StrParams == {[s |-> FALSE, len |-> 0], [s |-> TRUE, len |-> 0], [s |-> TRUE, len |-> 1]}

\* s == NULL || len <= 0
StrEmpty(p) == ~p.s \/ p.len <= 0

\* ------------------------------------------------------------- FileSink

\* The address lock_alloc returns.
LockAddr == 1

\* No call has returned yet; the functions return 0 or a negative code.
NoRet == 1

\* The line terminator fprintf appends.
NL == "\n"

\* The lines the writes are called with.
KeylogLines == {<<"a">>, <<"b">>}

InitFileSink ==
    /\ ksr_tls_keylog_file_lock = NULL
    /\ file_lock_mem = "none"
    /\ file_lock_holder = NoWorker
    /\ file_init_ret = NoRet
    /\ file_init_calls = 0
    /\ lock_allocs = 0
    /\ lock_inits = 0
    /\ fw_pc = [w \in Workers |-> "idle"]
    /\ fw_line = [w \in Workers |-> <<>>]
    /\ fw_lf = [w \in Workers |-> FALSE]
    /\ fw_buf = [w \in Workers |-> <<>>]
    /\ fw_ret = [w \in Workers |-> 0]
    /\ fw_calls = 0
    /\ keylog_out = <<>>
    /\ fw_log = <<>>

\* Line 145: ksr_tls_keylog_file_lock != NULL.
FileLockNeverSet == FALSE

FileLockSet == ksr_tls_keylog_file_lock # NULL

\* ksr_tls_keylog_file_init: what it returns and what it leaves behind, given
\* whether lock_alloc and lock_init succeed.
FileInitOutcome(alloc_ok, init_ok) ==
    LET same == [lock |-> ksr_tls_keylog_file_lock, mem |-> file_lock_mem,
                 allocs |-> lock_allocs, inits |-> lock_inits]
    IN  IF ksr_tls_keylog_mode = ModeNull THEN [ret |-> 0] @@ same
        ELSE IF ~ModeHas("FILE") THEN [ret |-> 0] @@ same
        ELSE IF StrEmpty(ksr_tls_keylog_file) THEN [ret |-> -1] @@ same
        ELSE IF FileLockSet THEN [ret |-> 0] @@ same
        ELSE IF ~alloc_ok THEN [ret |-> -2] @@ [same EXCEPT !.lock = NULL]
        ELSE IF ~init_ok
             THEN [ret |-> -3, lock |-> LockAddr, mem |-> "uninit",
                   allocs |-> lock_allocs + 1, inits |-> lock_inits]
             ELSE [ret |-> 0, lock |-> LockAddr, mem |-> "init",
                   allocs |-> lock_allocs + 1, inits |-> lock_inits + 1]

\* One call of ksr_tls_keylog_file_init (startup code calls it; it runs to its
\* return without another call of it in between).
FileInit ==
    /\ file_init_calls < MaxInit
    /\ \E alloc_ok, init_ok \in BOOLEAN :
          LET o == FileInitOutcome(alloc_ok, init_ok) IN
          /\ file_init_ret' = o.ret
          /\ ksr_tls_keylog_file_lock' = o.lock
          /\ file_lock_mem' = o.mem
          /\ lock_allocs' = o.allocs
          /\ lock_inits' = o.inits
    /\ file_init_calls' = file_init_calls + 1
    /\ UNCHANGED <<file_lock_holder, fw_pc, fw_line, fw_lf, fw_buf, fw_ret, fw_calls,
                   keylog_out, fw_log>>
    /\ UNCHANGED <<regVars, filtVars, cfgVars, peerVars>>

\* Line 196: ksr_tls_keylog_file_lock == NULL.
FileSinkNeverDisabled == FALSE

FileSinkDisabled == ksr_tls_keylog_file_lock = NULL

\* Line 200: lock_get returns once no other worker holds the lock.  On a lock
\* object that was never initialised its behaviour is undefined: it may return
\* with the lock not held by anyone.
FwMayEnterNoLock(w) == TRUE

FwMayEnter(w) == file_lock_mem = "init" => file_lock_holder = NoWorker

\* ksr_tls_keylog_file_write(ssl, line) is called by a worker that is in no
\* call of it ("idle", or "w_done" once a call has returned fw_ret[w]):
\* lf = NULL, ret = 0, and the test of line 196.
FwCall(w) ==
    /\ fw_pc[w] \in {"idle", "w_done"}
    /\ fw_calls < MaxWrites
    /\ fw_calls' = fw_calls + 1
    /\ \E line \in KeylogLines : fw_line' = [fw_line EXCEPT ![w] = line]
    /\ fw_ret' = [fw_ret EXCEPT ![w] = 0]
    /\ fw_pc' = [fw_pc EXCEPT ![w] = IF FileSinkDisabled THEN "w_done" ELSE "w_lock"]
    /\ UNCHANGED <<ksr_tls_keylog_file_lock, file_lock_mem, file_lock_holder, file_init_ret,
                   file_init_calls, lock_allocs, lock_inits, fw_lf, fw_buf, keylog_out, fw_log>>
    /\ UNCHANGED <<regVars, filtVars, cfgVars, peerVars>>

\* Line 200: lock_get(ksr_tls_keylog_file_lock).
FwLock(w) ==
    /\ fw_pc[w] = "w_lock"
    /\ FwMayEnter(w)
    /\ file_lock_holder' = IF file_lock_mem = "init" THEN w ELSE file_lock_holder
    /\ fw_pc' = [fw_pc EXCEPT ![w] = "w_open"]
    /\ UNCHANGED <<ksr_tls_keylog_file_lock, file_lock_mem, file_init_ret, file_init_calls,
                   lock_allocs, lock_inits, fw_line, fw_lf, fw_buf, fw_ret, fw_calls,
                   keylog_out, fw_log>>
    /\ UNCHANGED <<regVars, filtVars, cfgVars, peerVars>>

\* A write that leaves ret as it is when fopen failed.
FwOpenFailedRetKept(w) == fw_ret[w]

\* Line 207: ret = -1 when fopen failed.
FwOpenFailedRet(w) == -1

\* Lines 201-202, 205-208: fopen(..., "a") succeeds or fails.
FwOpen(w) ==
    /\ fw_pc[w] = "w_open"
    /\ \E ok \in BOOLEAN :
          IF ok
          THEN /\ fw_lf' = [fw_lf EXCEPT ![w] = TRUE]
               /\ fw_pc' = [fw_pc EXCEPT ![w] = "w_print"]
               /\ fw_ret' = fw_ret
          ELSE /\ fw_ret' = [fw_ret EXCEPT ![w] = FwOpenFailedRet(w)]
               /\ fw_pc' = [fw_pc EXCEPT ![w] = "w_unlock"]
               /\ fw_lf' = fw_lf
    /\ UNCHANGED <<ksr_tls_keylog_file_lock, file_lock_mem, file_lock_holder, file_init_ret,
                   file_init_calls, lock_allocs, lock_inits, fw_line, fw_buf, fw_calls,
                   keylog_out, fw_log>>
    /\ UNCHANGED <<regVars, filtVars, cfgVars, peerVars>>

\* Line 203: fprintf(lf, "%s\n", line) puts the line and its terminator into
\* the stream.
FwPrint(w) ==
    /\ fw_pc[w] = "w_print"
    /\ fw_buf' = [fw_buf EXCEPT ![w] = fw_line[w] \o <<NL>>]
    /\ fw_pc' = [fw_pc EXCEPT ![w] = "w_close"]
    /\ UNCHANGED <<ksr_tls_keylog_file_lock, file_lock_mem, file_lock_holder, file_init_ret,
                   file_init_calls, lock_allocs, lock_inits, fw_line, fw_lf, fw_ret, fw_calls,
                   keylog_out, fw_log>>
    /\ UNCHANGED <<regVars, filtVars, cfgVars, peerVars>>

\* The stream may hand its bytes to the file (opened for append) in pieces,
\* before fclose does.
FwFlush(w) ==
    /\ fw_pc[w] = "w_close"
    /\ fw_buf[w] # <<>>
    /\ keylog_out' = Append(keylog_out, Head(fw_buf[w]))
    /\ fw_buf' = [fw_buf EXCEPT ![w] = Tail(fw_buf[w])]
    /\ UNCHANGED <<ksr_tls_keylog_file_lock, file_lock_mem, file_lock_holder, file_init_ret,
                   file_init_calls, lock_allocs, lock_inits, fw_pc, fw_line, fw_lf, fw_ret,
                   fw_calls, fw_log>>
    /\ UNCHANGED <<regVars, filtVars, cfgVars, peerVars>>

\* Line 204: fclose(lf) appends what is left in the stream and closes it.
FwClose(w) ==
    /\ fw_pc[w] = "w_close"
    /\ keylog_out' = keylog_out \o fw_buf[w]
    /\ fw_buf' = [fw_buf EXCEPT ![w] = <<>>]
    /\ fw_lf' = [fw_lf EXCEPT ![w] = FALSE]
    /\ fw_log' = Append(fw_log, fw_line[w])
    /\ fw_pc' = [fw_pc EXCEPT ![w] = "w_unlock"]
    /\ UNCHANGED <<ksr_tls_keylog_file_lock, file_lock_mem, file_lock_holder, file_init_ret,
                   file_init_calls, lock_allocs, lock_inits, fw_line, fw_ret, fw_calls>>
    /\ UNCHANGED <<regVars, filtVars, cfgVars, peerVars>>

\* A write that releases the lock only on the path that wrote the line.
FwReleasedOnSuccessOnly(w) == IF fw_ret[w] = 0 THEN NoWorker ELSE file_lock_holder

\* Line 209: lock_release(ksr_tls_keylog_file_lock), reached from both
\* branches of the test of line 202, leaves the lock held by no one.
FwReleased(w) == NoWorker

\* Lines 209-210: lock_release(ksr_tls_keylog_file_lock); return ret.
FwUnlock(w) ==
    /\ fw_pc[w] = "w_unlock"
    /\ file_lock_holder' = IF file_lock_mem = "init" THEN FwReleased(w) ELSE file_lock_holder
    /\ fw_pc' = [fw_pc EXCEPT ![w] = "w_done"]
    /\ UNCHANGED <<ksr_tls_keylog_file_lock, file_lock_mem, file_init_ret, file_init_calls,
                   lock_allocs, lock_inits, fw_line, fw_lf, fw_buf, fw_ret, fw_calls,
                   keylog_out, fw_log>>
    /\ UNCHANGED <<regVars, filtVars, cfgVars, peerVars>>

NextFile ==
    \/ FileInit
    \/ \E w \in Workers :
        \/ FwCall(w)
        \/ FwLock(w)
        \/ FwOpen(w)
        \/ FwPrint(w)
        \/ FwFlush(w)
        \/ FwClose(w)
        \/ FwUnlock(w)

\* The configuration a process starts with when the key log is not set up.
InitConfigNone ==
    /\ ksr_tls_keylog_mode = ModeNull
    /\ ksr_tls_keylog_file = [s |-> FALSE, len |-> 0]
    /\ ksr_tls_keylog_peer = [s |-> FALSE, len |-> 0]
    /\ peer_env = [parse_ok |-> FALSE, proto |-> "NONE", resolve_ok |-> FALSE]

\* Any configuration of the file sink.
InitConfigFile ==
    /\ ksr_tls_keylog_mode \in Modes
    /\ ksr_tls_keylog_file \in StrParams
    /\ ksr_tls_keylog_peer = [s |-> FALSE, len |-> 0]
    /\ peer_env = [parse_ok |-> FALSE, proto |-> "NONE", resolve_ok |-> FALSE]


\* ------------------------------------------------------------- PeerSink

\* The protocols parse_phostport can name: none given, UDP, another one.
Protos == {"NONE", "UDP", "TCP"}

PeerEnvs == [parse_ok : BOOLEAN, proto : Protos, resolve_ok : BOOLEAN]

\* The send socket get_send_socket returns when it finds one.
SockAddr == 1

\* The static ksr_tls_keylog_peer_dst, zero-initialised; init_dest_info puts it
\* back into this state.
DstZero == [proto |-> "NONE", to |-> "zero", send_sock |-> NULL]

InitPeerSink ==
    /\ ksr_tls_keylog_peer_dst = DstZero
    /\ peer_init_ret = NoRet
    /\ peer_init_calls = 0
    /\ peer_init_steps = <<>>
    /\ ps_pc = [w \in Workers |-> "idle"]
    /\ ps_line = [w \in Workers |-> <<>>]
    /\ ps_ret = [w \in Workers |-> 0]
    /\ ps_calls = 0
    /\ net = <<>>

\* Line 239: proto != PROTO_UDP fails the call.
PeerProtoAny == TRUE

PeerProtoOk == peer_env.proto = "UDP"

\* ksr_tls_keylog_peer_init: what it returns, the collaborator functions it
\* has invoked and what it leaves in ksr_tls_keylog_peer_dst.
PeerInitOutcome ==
    IF ksr_tls_keylog_mode = ModeNull \/ ~ModeHas("PEER")
    THEN [ret |-> 0, steps |-> <<>>, dst |-> ksr_tls_keylog_peer_dst]
    ELSE IF StrEmpty(ksr_tls_keylog_peer)
    THEN [ret |-> -1, steps |-> <<>>, dst |-> ksr_tls_keylog_peer_dst]
    ELSE IF ~peer_env.parse_ok
    THEN [ret |-> -2, steps |-> <<"parse_phostport">>, dst |-> DstZero]
    ELSE IF ~PeerProtoOk
    THEN [ret |-> -3, steps |-> <<"parse_phostport">>, dst |-> DstZero]
    ELSE IF ~peer_env.resolve_ok
    THEN [ret |-> -4, steps |-> <<"parse_phostport", "sip_hostport2su">>,
          dst |-> [DstZero EXCEPT !.proto = peer_env.proto]]
    ELSE [ret |-> 0, steps |-> <<"parse_phostport", "sip_hostport2su">>,
          dst |-> [DstZero EXCEPT !.proto = peer_env.proto, !.to = "resolved"]]

\* One call of ksr_tls_keylog_peer_init.
PeerInit ==
    /\ peer_init_calls < MaxInit
    /\ peer_init_calls' = peer_init_calls + 1
    /\ peer_init_ret' = PeerInitOutcome.ret
    /\ peer_init_steps' = PeerInitOutcome.steps
    /\ ksr_tls_keylog_peer_dst' = PeerInitOutcome.dst
    /\ UNCHANGED <<ps_pc, ps_line, ps_ret, ps_calls, net>>
    /\ UNCHANGED <<regVars, filtVars, cfgVars, fileVars>>

\* Lines 259-265: the mode is not set, or peer mode is not switched on.
PeerSendDisabled == ksr_tls_keylog_mode = ModeNull \/ ~ModeHas("PEER")

\* A send that looks up a send socket whether or not one is stored.
PsNeedSockAlways == TRUE

\* Line 267: ksr_tls_keylog_peer_dst.send_sock == NULL.
PsNeedSock == ksr_tls_keylog_peer_dst.send_sock = NULL

\* ksr_tls_keylog_peer_send(ssl, line) is called by a worker that is in no
\* call of it: the mode tests, and the test of line 267.
PsCall(w) ==
    /\ ps_pc[w] \in {"idle", "s_done"}
    /\ ps_calls < MaxSends
    /\ ps_calls' = ps_calls + 1
    /\ \E line \in KeylogLines : ps_line' = [ps_line EXCEPT ![w] = line]
    /\ ps_ret' = [ps_ret EXCEPT ![w] = 0]
    /\ ps_pc' = [ps_pc EXCEPT ![w] =
                    IF PeerSendDisabled THEN "s_done"
                    ELSE IF PsNeedSock THEN "s_getsock"
                    ELSE "s_send"]
    /\ UNCHANGED <<ksr_tls_keylog_peer_dst, peer_init_ret, peer_init_calls,
                   peer_init_steps, net>>
    /\ UNCHANGED <<regVars, filtVars, cfgVars, fileVars>>

\* Lines 268-269: send_sock = get_send_socket(...), which finds a socket or
\* returns NULL.
PsGetSock(w) ==
    /\ ps_pc[w] = "s_getsock"
    /\ \E sock \in {NULL, SockAddr} :
          ksr_tls_keylog_peer_dst' = [ksr_tls_keylog_peer_dst EXCEPT !.send_sock = sock]
    /\ ps_pc' = [ps_pc EXCEPT ![w] = "s_chksock"]
    /\ UNCHANGED <<peer_init_ret, peer_init_calls, peer_init_steps, ps_line, ps_ret,
                   ps_calls, net>>
    /\ UNCHANGED <<regVars, filtVars, cfgVars, fileVars>>

\* Lines 270-273: send_sock is read again; NULL returns -2.
PsChkSock(w) ==
    /\ ps_pc[w] = "s_chksock"
    /\ IF ksr_tls_keylog_peer_dst.send_sock = NULL
       THEN /\ ps_ret' = [ps_ret EXCEPT ![w] = -2]
            /\ ps_pc' = [ps_pc EXCEPT ![w] = "s_done"]
       ELSE /\ ps_ret' = ps_ret
            /\ ps_pc' = [ps_pc EXCEPT ![w] = "s_send"]
    /\ UNCHANGED <<ksr_tls_keylog_peer_dst, peer_init_ret, peer_init_calls,
                   peer_init_steps, ps_line, ps_calls, net>>
    /\ UNCHANGED <<regVars, filtVars, cfgVars, fileVars>>

\* A datagram that carries the line and a line terminator after it.
PeerDatagramWithTerminator(w) ==
    [sock |-> ksr_tls_keylog_peer_dst.send_sock,
     to |-> ksr_tls_keylog_peer_dst.to,
     payload |-> ps_line[w] \o <<NL>>]

\* Line 276: the arguments of udp_send(&ksr_tls_keylog_peer_dst, line,
\* strlen(line)): the socket and address of the destination and the bytes of
\* line.
PeerDatagram(w) ==
    [sock |-> ksr_tls_keylog_peer_dst.send_sock,
     to |-> ksr_tls_keylog_peer_dst.to,
     payload |-> ps_line[w]]

\* Lines 276-280: udp_send hands one datagram to the network and the call
\* returns 0, or it fails and the call returns -1.  udp_send reads the socket
\* through dst->send_sock; with send_sock NULL that is a null pointer
\* dereference, which ends the process ("s_crash") with nothing sent.
PsSend(w) ==
    /\ ps_pc[w] = "s_send"
    /\ IF ksr_tls_keylog_peer_dst.send_sock = NULL
       THEN /\ net' = net
            /\ ps_ret' = ps_ret
            /\ ps_pc' = [ps_pc EXCEPT ![w] = "s_crash"]
       ELSE /\ \E ok \in BOOLEAN :
                  IF ok
                  THEN /\ net' = Append(net, PeerDatagram(w))
                       /\ ps_ret' = [ps_ret EXCEPT ![w] = 0]
                  ELSE /\ net' = net
                       /\ ps_ret' = [ps_ret EXCEPT ![w] = -1]
            /\ ps_pc' = [ps_pc EXCEPT ![w] = "s_done"]
    /\ UNCHANGED <<ksr_tls_keylog_peer_dst, peer_init_ret, peer_init_calls,
                   peer_init_steps, ps_line, ps_calls>>
    /\ UNCHANGED <<regVars, filtVars, cfgVars, fileVars>>

NextPeer ==
    \/ PeerInit
    \/ \E w \in Workers :
        \/ PsCall(w)
        \/ PsGetSock(w)
        \/ PsChkSock(w)
        \/ PsSend(w)

\* Any configuration of the peer sink.
InitConfigPeer ==
    /\ ksr_tls_keylog_mode \in Modes
    /\ ksr_tls_keylog_file = [s |-> FALSE, len |-> 0]
    /\ ksr_tls_keylog_peer \in StrParams
    /\ peer_env \in PeerEnvs

Init ==
    /\ InitRegistry
    /\ InitFilter
    /\ InitConfigNone
    /\ InitFileSink
    /\ InitPeerSink

SpecRegistry == Init /\ [][NextRegistry]_vars

\* Scheduling: the worker that holds the registry lock, in collect_garbage or
\* in publish, keeps running until it has released it, and a worker at
\* lock_get that finds the lock free again and again gets it in the end.
FairRegistry ==
    /\ WF_vars(\E w \in Workers :
                  \/ GcInit(w)
                  \/ GcLoop(w)
                  \/ GcCheck(w)
                  \/ GcUnlink(w)
                  \/ GcFree(w)
                  \/ GcUnlock(w)
                  \/ PubSwap(w)
                  \/ PubUnlock(w))
    /\ \A w \in Workers : SF_vars(GcLock(w))

SpecRegistryFair == Init /\ [][NextRegistry]_vars /\ FairRegistry

SpecFilter == Init /\ [][NextFilter]_vars

InitFile ==
    /\ InitRegistry
    /\ InitFilter
    /\ InitConfigFile
    /\ InitFileSink
    /\ InitPeerSink

SpecFile == InitFile /\ [][NextFile]_vars

InitPeer ==
    /\ InitRegistry
    /\ InitFilter
    /\ InitConfigPeer
    /\ InitFileSink
    /\ InitPeerSink

SpecPeer == InitPeer /\ [][NextPeer]_vars

\* ------------------------------------------------- both sinks together

\* The calls of the key-log functions one run makes, over both sinks.
MaxCalls == 4

KeylogCalls == file_init_calls + peer_init_calls + fw_calls + ps_calls

\* Any configuration of the key log: ksr_tls_keylog_mode, the file path and
\* the peer address are module parameters.
InitConfigKeylog ==
    /\ ksr_tls_keylog_mode \in Modes
    /\ ksr_tls_keylog_file \in StrParams
    /\ ksr_tls_keylog_peer \in StrParams
    /\ peer_env \in PeerEnvs

InitKeylog ==
    /\ InitRegistry
    /\ InitFilter
    /\ InitConfigKeylog
    /\ InitFileSink
    /\ InitPeerSink

\* The worker whose calls the two sinks see in SpecKeylog.
KeylogWorker == CHOOSE w \in Workers : TRUE

\* The file sink and the peer sink as one worker process uses them: it calls
\* the init functions, writes and sends one after another, in any order.
NextKeylog ==
    \/ KeylogCalls < MaxCalls /\ FileInit
    \/ KeylogCalls < MaxCalls /\ PeerInit
    \/ \E w \in {KeylogWorker} :
        \/ KeylogCalls < MaxCalls /\ ps_pc[w] \in {"idle", "s_done"} /\ FwCall(w)
        \/ KeylogCalls < MaxCalls /\ fw_pc[w] \in {"idle", "w_done"} /\ PsCall(w)
        \/ FwLock(w)
        \/ FwOpen(w)
        \/ FwPrint(w)
        \/ FwFlush(w)
        \/ FwClose(w)
        \/ FwUnlock(w)
        \/ PsGetSock(w)
        \/ PsChkSock(w)
        \/ PsSend(w)

SpecKeylog == InitKeylog /\ [][NextKeylog]_vars

\* ------------------------------------------------- claims: ConfigRegistry

\* The positions of collect_garbage between lock_get and lock_release.
GcInside == {"gc_init", "gc_loop", "gc_check", "gc_unlink", "gc_free", "gc_unlock"}

\* The positions of publish between taking and releasing the registry lock.
PubInside == {"pub_swap", "pub_unlock"}

\* C1: in every interleaving of acquire_current, release, publish and
\* collect_garbage, a freed generation has reference count zero and no worker
\* holds a reference
\* on it; the generation a sweep is about to unlink and free
\* still has count zero; and the generation acquire_current increments (the
\* head) is allocated.
C1_NoUseAfterFree ==
    /\ \A g \in Gens :
          cfg_mem[g] = "freed" =>
              /\ ref_count[g] = 0
              /\ \A c \in Conns : conn_cfg[c] # g
    /\ \A w \in Workers :
          pc[w] \in {"gc_unlink", "gc_free"} =>
              /\ ref_count[cur[w]] = 0
              /\ cfg_mem[cur[w]] = "live"
    /\ \A c \in Conns : conn_cfg[c] # NULL => cfg_mem[conn_cfg[c]] = "live"
    /\ cfg_mem[tls_domains_cfg] = "live"

\* C1 witness: a sweep has freed one generation and has walked past a retired
\* generation that a worker still references.
C1_Witness ==
    \E w \in Workers : \E g, h \in Gens :
        /\ pc[w] = "gc_loop"
        /\ cfg_mem[g] = "freed"
        /\ prev[w] = h
        /\ h # tls_domains_cfg
        /\ ref_count[h] > 0
        /\ \E c \in Conns : conn_cfg[c] = h

\* C2: a step taken while a worker is inside collect_garbage leaves the chain
\* head the same generation, still allocated, whatever its reference count is.
C2_HeadSurvivesSweep ==
    [][(\E w \in Workers : pc[w] \in GcInside) =>
          /\ tls_domains_cfg' = tls_domains_cfg
          /\ cfg_mem'[tls_domains_cfg] = "live"
      ]_vars

\* C2 witness: a sweep has finished its walk and freed a generation while the
\* head's reference count is zero.
C2_Witness ==
    \E w \in Workers : \E g \in Gens :
        /\ pc[w] = "gc_unlock"
        /\ cfg_mem[g] = "freed"
        /\ ref_count[tls_domains_cfg] = 0
        /\ cfg_mem[tls_domains_cfg] = "live"

\* C3: when a sweep has finished its walk, the head is the generation that was
\* head when the sweep took the lock, and every retired generation whose count
\* was zero at that moment is unlinked and freed; a published generation whose
\* count is nonzero is allocated and reachable from the head by next links.
C3_PublishThenSweep ==
    /\ \A w \in Workers :
          pc[w] = "gc_unlock" =>
              /\ tls_domains_cfg = gc_at_lock[w].head
              /\ cfg_mem[tls_domains_cfg] = "live"
              /\ \A g \in gc_at_lock[w].zero :
                    cfg_mem[g] = "freed" /\ g \notin ChainSet
    /\ \A g \in Gens :
          (cfg_mem[g] # "fresh" /\ ref_count[g] > 0) =>
              cfg_mem[g] = "live" /\ g \in ChainSet

\* C3 witness: a sweep that started after a publish has finished; the prior
\* head with no references is freed, and an older generation that is still
\* referenced is linked behind the new head.
C3_Witness ==
    \E w \in Workers : \E g, h \in Gens :
        /\ pc[w] = "gc_unlock"
        /\ g \in gc_at_lock[w].zero
        /\ cfg_mem[g] = "freed"
        /\ h \in Retired
        /\ ref_count[h] > 0
        /\ cfg_next[tls_domains_cfg] = h

\* C4: at most one worker is between lock_get and lock_release of
\* collect_garbage or inside publish's head swap, and that worker holds
\* tls_domains_cfg_lock.
C4_SweepMutex ==
    /\ Cardinality({w \in Workers : pc[w] \in GcInside \cup PubInside}) <= 1
    /\ \A w \in Workers :
          pc[w] \in GcInside \cup PubInside => tls_domains_cfg_lock = w

\* C4 witness: one worker is inside the walk while another one has called
\* collect_garbage and waits at lock_get.
C4_Witness ==
    \E w, v \in Workers :
        /\ w # v
        /\ pc[w] = "gc_check"
        /\ pc[v] = "gc_lock"

\* ------------------------------------------------------ claims: key log

\* a equals b when letter case is ignored.
EqualsIgnoreCase(a, b) ==
    /\ Len(a) = Len(b)
    /\ \A i \in 1..Len(a) : tolower(a[i]) = tolower(b[i])

\* C5: ksr_tls_keylog_vfilter_match returns 1 exactly when its argument
\* equals, ignoring case, one of the six canonical labels, and 0 for every other
\* string.
C5_MatchesCanonicalLabels ==
    vf_pc = "ret" =>
        (vf_ret = 1 <=> \E L \in CanonicalLabels : EqualsIgnoreCase(vf_line, L))

\* The positions of ksr_tls_keylog_file_write between lock_get and lock_release.
FwInside == {"w_open", "w_print", "w_close", "w_unlock"}

\* The file made of one complete line (the line and its terminator) per entry.
RECURSIVE FileOf(_)
FileOf(lines) ==
    IF lines = <<>> THEN <<>>
    ELSE Head(lines) \o <<NL>> \o FileOf(Tail(lines))

\* ksr_tls_keylog_file_init has allocated and initialised the lock.
FileSinkInitialised == ksr_tls_keylog_file_lock # NULL /\ file_lock_mem = "init"

\* C6: once ksr_tls_keylog_file_init has succeeded, at most one worker is
\* between lock_get and lock_release of ksr_tls_keylog_file_write; the file is
\* the complete lines of the writes that completed, in their order, followed
\* only by the part already flushed of the one line being written.
C6_WritesDoNotInterleave ==
    FileSinkInitialised =>
        /\ Cardinality({w \in Workers : fw_pc[w] \in FwInside}) <= 1
        /\ \A w \in Workers :
              fw_pc[w] \in FwInside => file_lock_holder = w
        /\ \A w \in Workers :
              fw_pc[w] = "w_close" =>
                  keylog_out \o fw_buf[w] = FileOf(fw_log) \o fw_line[w] \o <<NL>>
        /\ (\A w \in Workers : fw_pc[w] # "w_close") => keylog_out = FileOf(fw_log)

\* C6 witness: the line of one write is in the file without its terminator
\* while another worker has called write and waits at lock_get.
C6_Witness ==
    \E w, v \in Workers :
        /\ FileSinkInitialised
        /\ w # v
        /\ fw_pc[w] = "w_close"
        /\ fw_buf[w] # <<>>
        /\ Len(fw_buf[w]) < Len(fw_line[w]) + 1
        /\ fw_pc[v] = "w_lock"

\* C7: while ksr_tls_keylog_file_lock is NULL, every call of
\* ksr_tls_keylog_file_write has returned 0 straight away: no worker is at or
\* past lock_get, no stream is open, the lock is not held and the file is empty.
C7_WriteBeforeInitIsNoop ==
    ksr_tls_keylog_file_lock = NULL =>
        /\ \A w \in Workers :
              /\ fw_pc[w] \in {"idle", "w_done"}
              /\ fw_ret[w] = 0
              /\ ~fw_lf[w]
              /\ fw_buf[w] = <<>>
        /\ file_lock_holder = NoWorker
        /\ keylog_out = <<>>
        /\ fw_log = <<>>

\* C7 witness: with the file mode switched on but the lock never created, a
\* second write has returned.
C7_Witness ==
    \E w \in Workers :
        /\ ksr_tls_keylog_file_lock = NULL
        /\ ModeHas("FILE")
        /\ fw_pc[w] = "w_done"
        /\ fw_line[w] # <<>>
        /\ fw_calls >= 2

\* C9: over any sequence of ksr_tls_keylog_file_init calls, lock_alloc hands
\* out and lock_init initialises at most one lock; a call made with the lock
\* pointer already set returns 0 and leaves the lock as it was; -2 is returned
\* exactly when lock_alloc fails and -3 exactly when lock_init fails.
C9_InitOnce ==
    [][file_init_calls' # file_init_calls =>
          /\ lock_allocs' <= 1
          /\ lock_inits' <= 1
          /\ ksr_tls_keylog_file_lock # NULL =>
                /\ file_init_ret' = 0
                /\ UNCHANGED <<ksr_tls_keylog_file_lock, file_lock_mem, file_lock_holder,
                               lock_allocs, lock_inits>>
          /\ file_init_ret' = -2 <=>
                /\ ModeHas("FILE") /\ ~StrEmpty(ksr_tls_keylog_file)
                /\ ksr_tls_keylog_file_lock = NULL
                /\ ksr_tls_keylog_file_lock' = NULL
          /\ file_init_ret' = -3 <=>
                /\ ModeHas("FILE") /\ ~StrEmpty(ksr_tls_keylog_file)
                /\ ksr_tls_keylog_file_lock = NULL
                /\ ksr_tls_keylog_file_lock' # NULL
                /\ file_lock_mem' = "uninit"
      ]_vars

\* C9 witness: a first call failed in lock_alloc, a second one created the
\* lock, and a third call has returned 0.
C9_Witness ==
    /\ file_init_calls >= 2
    /\ lock_allocs = 1
    /\ lock_inits = 1
    /\ file_init_ret = 0
    /\ FileSinkInitialised

\* C8: as long as ksr_tls_keylog_peer_init has not returned 0 (never called,
\* or failed), every ksr_tls_keylog_peer_send has returned 0 without going on
\* to get_send_socket or udp_send: no handle is set and no datagram is sent.
C8_SendBeforeInitIsNoop ==
    peer_init_ret # 0 =>
        /\ \A w \in Workers :
              /\ ps_pc[w] \in {"idle", "s_done"}
              /\ ps_ret[w] = 0
        /\ ksr_tls_keylog_peer_dst.send_sock = NULL
        /\ net = <<>>

\* C10: after a call of ksr_tls_keylog_peer_init with peer mode requested and
\* enabled, the code returned tells the first check that failed, in the order
\* empty address (-1), parse (-2), protocol (-3), resolution (-4), and is 0
\* only when all four pass; parse_phostport is invoked only for a non-empty
\* address and sip_hostport2su only after the parse and the protocol check
\* passed; the address is resolved only when 0 is returned.
C10_InitErrorOrder ==
    (peer_init_calls > 0 /\ ~PeerSendDisabled) =>
        LET empty == StrEmpty(ksr_tls_keylog_peer)
            parsed == peer_env.parse_ok
            udp == peer_env.proto = "UDP"
            resolved == peer_env.resolve_ok
        IN  /\ peer_init_ret \in {0, -1, -2, -3, -4}
            /\ peer_init_ret = -1 <=> empty
            /\ peer_init_ret = -2 <=> (~empty /\ ~parsed)
            /\ peer_init_ret = -3 <=> (~empty /\ parsed /\ ~udp)
            /\ peer_init_ret = -4 <=> (~empty /\ parsed /\ udp /\ ~resolved)
            /\ peer_init_ret = 0 <=> (~empty /\ parsed /\ udp /\ resolved)
            /\ peer_init_ret = -1 => peer_init_steps = <<>>
            /\ peer_init_ret \in {-2, -3} => peer_init_steps = <<"parse_phostport">>
            /\ peer_init_ret \in {-4, 0} =>
                  peer_init_steps = <<"parse_phostport", "sip_hostport2su">>
            /\ ksr_tls_keylog_peer_dst.to = "resolved" => peer_init_ret = 0

\* C10 witness: the address parses, names a protocol other than UDP and would
\* not resolve either; init has returned -3 without calling the resolver.
C10_Witness ==
    /\ peer_init_calls > 0
    /\ ~PeerSendDisabled
    /\ peer_env.parse_ok
    /\ peer_env.proto = "TCP"
    /\ ~peer_env.resolve_ok
    /\ peer_init_ret = -3
    /\ peer_init_steps = <<"parse_phostport">>

\* ------------------------------------------- claims: channel activation

\* C11: a channel is active only when the mode is set and has both the INIT
\* bit and the channel's bit.  While the file channel is not active,
\* ksr_tls_keylog_file_init returns 0 and allocates no lock, so the lock
\* pointer stays NULL and every write returns 0 at once and appends nothing.
\* While the peer channel is not active, ksr_tls_keylog_peer_init returns 0
\* having called neither parse_phostport nor sip_hostport2su, and every send
\* returns 0 having created no send socket and transmitted nothing.
C11_InactiveChannelIsInert ==
    LET Active(bit) == /\ ksr_tls_keylog_mode # ModeNull
                       /\ "INIT" \in ksr_tls_keylog_mode
                       /\ bit \in ksr_tls_keylog_mode
    IN  /\ ~Active("FILE") =>
            /\ file_init_ret \in {NoRet, 0}
            /\ ksr_tls_keylog_file_lock = NULL
            /\ file_lock_mem = "none"
            /\ lock_allocs = 0
            /\ lock_inits = 0
            /\ keylog_out = <<>>
            /\ fw_log = <<>>
            /\ \A w \in Workers : fw_pc[w] \in {"idle", "w_done"} /\ fw_ret[w] = 0
        /\ ~Active("PEER") =>
            /\ peer_init_ret \in {NoRet, 0}
            /\ peer_init_steps = <<>>
            /\ ksr_tls_keylog_peer_dst = DstZero
            /\ net = <<>>
            /\ \A w \in Workers : ps_pc[w] \in {"idle", "s_done"} /\ ps_ret[w] = 0

\* C11 witness: the mode names both channels but lacks the INIT bit, a path and
\* a peer address are configured, both init functions have been called, and a
\* write and a send have returned.
C11_Witness ==
    /\ ksr_tls_keylog_mode = {"FILE", "PEER"}
    /\ ~StrEmpty(ksr_tls_keylog_file)
    /\ ~StrEmpty(ksr_tls_keylog_peer)
    /\ peer_env.parse_ok /\ peer_env.proto = "UDP" /\ peer_env.resolve_ok
    /\ file_init_calls > 0
    /\ peer_init_calls > 0
    /\ fw_calls > 0
    /\ ps_calls > 0
    /\ fw_pc[KeylogWorker] = "w_done"
    /\ ps_pc[KeylogWorker] = "s_done"

\* ------------------------------------------------- claims: PeerSink sends

\* C12: once ksr_tls_keylog_peer_init has returned 0 with peer mode active, a
\* send whose socket lookup and udp_send succeed (it returns 0) appends
\* exactly one datagram, addressed to the resolved destination and carrying
\* exactly the bytes of its line; a send that returns an error appends none,
\* and no other step changes what has been sent.  So the datagrams sent never
\* outnumber the calls that have returned, and each caller's datagrams are in
\* the order of its calls.
C12_OneDatagramPerSend ==
    /\ [][(peer_init_ret = 0 /\ ~PeerSendDisabled) =>
            /\ \A w \in Workers :
                  (ps_pc[w] = "s_send" /\ ps_pc'[w] = "s_done") =>
                      IF ps_ret'[w] = 0
                      THEN net' = Append(net, [sock |-> SockAddr, to |-> "resolved",
                                               payload |-> ps_line[w]])
                      ELSE net' = net
            /\ (\A w \in Workers : ~(ps_pc[w] = "s_send" /\ ps_pc'[w] = "s_done")) =>
                  net' = net
         ]_vars
    /\ [](Len(net) + Cardinality({w \in Workers : ps_pc[w] \notin {"idle", "s_done"}})
              <= ps_calls)

\* C12 witness: after a successful init, two sends of different lines have
\* returned 0 and the network has seen the two lines, in that order, sent to
\* the resolved address.
C12_Witness ==
    /\ peer_init_ret = 0
    /\ ~PeerSendDisabled
    /\ ps_calls = 2
    /\ \A w \in Workers : ps_pc[w] \in {"idle", "s_done"} /\ ps_ret[w] = 0
    /\ Len(net) = 2
    /\ net[1].payload # net[2].payload
    /\ \A i \in 1..2 : net[i].to = "resolved" /\ net[i].sock = SockAddr

\* C13: the send socket is looked up lazily and kept.  With peer mode active,
\* a call looks the socket up exactly when it finds none stored at line 267; a
\* call that finds none stored at line 270 returns -2 without transmitting and
\* leaves the pointer NULL, so the next call looks it up again; and a call
\* that found a socket stored goes straight to udp_send, and neither the tests
\* of a call nor its udp_send, failing or not, change the stored pointer.
C13_LazyCachedHandle ==
    [][~PeerSendDisabled =>
          \A w \in Workers :
              /\ (ps_pc[w] \in {"idle", "s_done"} /\ ps_pc'[w] \notin {"idle", "s_done"}) =>
                    IF ksr_tls_keylog_peer_dst.send_sock = NULL
                    THEN ps_pc'[w] = "s_getsock"
                    ELSE ps_pc'[w] = "s_send"
              /\ (ps_pc[w] = "s_chksock" /\ ps_pc'[w] # "s_chksock"
                     /\ ksr_tls_keylog_peer_dst.send_sock = NULL) =>
                    /\ ps_pc'[w] = "s_done"
                    /\ ps_ret'[w] = -2
                    /\ net' = net
                    /\ ksr_tls_keylog_peer_dst'.send_sock = NULL
              /\ (ps_pc[w] # "s_getsock" /\ ps_pc'[w] # ps_pc[w]) =>
                    ksr_tls_keylog_peer_dst' = ksr_tls_keylog_peer_dst
      ]_vars

\* C13 witness: one send has returned -2 because no send socket was found; the
\* next send found one, stored it, and failed in udp_send with -1; the socket
\* is still stored and nothing has been transmitted.
C13_Witness ==
    \E w, v \in Workers :
        /\ w # v
        /\ ~PeerSendDisabled
        /\ ps_calls = 2
        /\ ps_pc[w] = "s_done" /\ ps_ret[w] = -2
        /\ ps_pc[v] = "s_done" /\ ps_ret[v] = -1
        /\ ksr_tls_keylog_peer_dst.send_sock = SockAddr
        /\ net = <<>>

\* --------------------------------------------- claims: transient failures

\* C14: an I/O failure leaves the sink as it was.  A write whose fopen fails
\* returns -1, and a send whose udp_send fails returns -1; neither step changes
\* the mode, the path, the peer address, the lock pointer, the lock object or
\* the peer destination, and neither adds output.  The lock pointer, once set,
\* stays set, so each later write again gets to fopen, and with peer mode
\* active each later send that has a socket again gets to udp_send.
C14_TransientErrorKeepsSinkEnabled ==
    [][/\ \A w \in Workers :
            /\ (fw_pc[w] = "w_open" /\ fw_pc'[w] = "w_unlock") =>
                  /\ fw_ret'[w] = -1
                  /\ UNCHANGED <<cfgVars, ksr_tls_keylog_file_lock, file_lock_mem,
                                 lock_allocs, lock_inits, keylog_out,
                                 ksr_tls_keylog_peer_dst>>
            /\ (ps_pc[w] = "s_send" /\ ps_pc'[w] = "s_done" /\ net' = net) =>
                  /\ ps_ret'[w] = -1
                  /\ UNCHANGED <<cfgVars, ksr_tls_keylog_file_lock, file_lock_mem,
                                 ksr_tls_keylog_peer_dst>>
            /\ (fw_pc[w] \in {"idle", "w_done"} /\ fw_pc'[w] # fw_pc[w]
                   /\ ksr_tls_keylog_file_lock # NULL) =>
                  fw_pc'[w] = "w_lock"
            /\ (fw_pc[w] = "w_lock" /\ fw_pc'[w] # fw_pc[w]) => fw_pc'[w] = "w_open"
            /\ (ps_pc[w] \in {"idle", "s_done"} /\ ps_pc'[w] # ps_pc[w]
                   /\ ~PeerSendDisabled /\ ksr_tls_keylog_peer_dst.send_sock # NULL) =>
                  ps_pc'[w] = "s_send"
       /\ ksr_tls_keylog_file_lock # NULL => ksr_tls_keylog_file_lock' # NULL
       /\ UNCHANGED cfgVars
      ]_vars

\* C14 witness: a write has failed in fopen and returned -1, a send has failed
\* in udp_send and returned -1, nothing has been written or transmitted, and
\* the lock and the send socket are still in place.
C14_Witness ==
    LET w == KeylogWorker IN
    /\ FileSinkInitialised
    /\ ~PeerSendDisabled
    /\ ksr_tls_keylog_peer_dst.send_sock = SockAddr
    /\ ps_pc[w] = "s_done" /\ ps_ret[w] = -1
    /\ fw_pc[w] = "w_done" /\ fw_ret[w] = -1
    /\ keylog_out = <<>>
    /\ net = <<>>

\* C15: a write releases ksr_tls_keylog_file_lock on every exit path.  A call
\* that took the lock returns only through lock_release, whether fopen
\* succeeded or failed, and at its return the lock is free; so the lock is never
\* held by a worker that is outside lines 200-209, and a worker waiting at
\* lock_get after a failed write can take the lock.
C15_WriteReleasesLock ==
    /\ [][\A w \in Workers :
             /\ (fw_pc[w] \in FwInside /\ fw_pc'[w] \notin FwInside) =>
                   /\ fw_pc[w] = "w_unlock"
                   /\ fw_pc'[w] = "w_done"
                   /\ (FileSinkInitialised => file_lock_holder' = NoWorker)
             /\ (fw_pc[w] = "w_open" /\ fw_pc'[w] # "w_open") =>
                   fw_pc'[w] = IF fw_ret'[w] = 0 THEN "w_print" ELSE "w_unlock"
         ]_vars
    /\ [](\A w \in Workers : file_lock_holder = w => fw_pc[w] \in FwInside)
    /\ []((FileSinkInitialised /\ \A w \in Workers : fw_pc[w] \notin FwInside)
             => file_lock_holder = NoWorker)

\* C15 witness: one worker's write has failed in fopen and returned -1, and
\* another worker, whose write came after it, holds the lock and is at fopen.
C15_Witness ==
    \E w, v \in Workers :
        /\ w # v
        /\ FileSinkInitialised
        /\ fw_pc[w] = "w_done" /\ fw_ret[w] = -1
        /\ fw_pc[v] = "w_open"
        /\ file_lock_holder = v

\* ------------------------------------------ claims: the sweep's result

C19_ChainIntegrity ==
    /\ Len(Chain) <= MaxGen
    /\ \A i, j \in 1..Len(Chain) : Chain[i] = Chain[j] => i = j
    /\ cfg_next[Chain[Len(Chain)]] = NULL
    /\ \A i \in 1..Len(Chain) : cfg_mem[Chain[i]] = "live"
    /\ \A g \in Gens :
          (cfg_mem[g] = "live" /\ g \notin ChainSet) =>
              \E w \in Workers : pc[w] = "gc_free" /\ cur[w] = g
    /\ tls_domains_cfg_lock = NoWorker =>
          \A g \in Gens : cfg_mem[g] = "live" <=> g \in ChainSet

\* C19 witness: after three publishes and a sweep that freed a generation from
\* the middle of the chain, no worker is inside: the chain is the head, a
\* referenced generation behind it and the oldest generation as tail.
C19_Witness ==
    \E g, h \in Gens :
        /\ tls_domains_cfg_lock = NoWorker
        /\ \A w \in Workers : pc[w] = "idle"
        /\ cfg_mem[g] = "freed"
        /\ Len(Chain) = 3
        /\ Chain[3] = h
        /\ h < g
        /\ cfg_next[h] = NULL

\* ------------------------------------------- claims: sweep termination

C17_RaceKeepsHandle ==
    [][(peer_init_ret = 0 /\ ~PeerSendDisabled) =>
          \A w \in Workers :
              (ps_pc[w] = "s_getsock" /\ ps_pc'[w] = "s_chksock") =>
                  /\ ksr_tls_keylog_peer_dst.send_sock # NULL =>
                        ksr_tls_keylog_peer_dst'.send_sock # NULL
                  /\ \A v \in Workers :
                        ps_pc'[v] = "s_send" =>
                            ksr_tls_keylog_peer_dst'.send_sock # NULL
      ]_vars

\* ------------------------------------------- claims: the file lock handle

\* C20: ksr_tls_keylog_file_lock is set only if the lock has been initialised.
\* So after an init that failed in lock_init (-3) the pointer is NULL, an init
\* that returns 0 with the file channel active and a path configured has left
\* an initialised lock, and no write is at or past lock_get on a lock that was
\* never initialised.
C20_LockSetOnlyIfInitialised ==
    /\ ksr_tls_keylog_file_lock # NULL => file_lock_mem = "init"
    /\ file_init_ret = -3 => ksr_tls_keylog_file_lock = NULL
    /\ (file_init_ret = 0 /\ ModeHas("FILE") /\ ksr_tls_keylog_mode # ModeNull
           /\ ~StrEmpty(ksr_tls_keylog_file)) => file_lock_mem = "init"
    /\ \A w \in Workers : fw_pc[w] \in {"w_lock"} \cup FwInside => file_lock_mem = "init"

====
